---- MODULE Spec2Model ----
(***************************************************************************)
(* flowist API server (server/api/src/main.rs, server/api/src/graphql.rs,  *)
(* server/auth/src/lib.rs).                                                *)
(*                                                                         *)
(* Two specifications are given.                                           *)
(*                                                                         *)
(*   Spec         the program as it is wired in the source: the binary     *)
(*                entry point main() and the router built by router(),     *)
(*                which the test module drives with one request per        *)
(*                router (tower's oneshot).                                *)
(*                                                                         *)
(*   SpecHandler  the function graphql_handler applied to arguments drawn  *)
(*                from bounded sets, several invocations in flight at      *)
(*                once, executing against a schema whose resolvers and     *)
(*                authorization gate are not part of the source files and  *)
(*                are modelled from the specification document.            *)
(***************************************************************************)
EXTENDS Integers, Sequences, FiniteSets, TLC

\* Number of request slots; all of them may be in flight at once.
MaxReq == 2

Slots == 1..MaxReq

\* Rust's Option::None for string payloads (Subject's username, the Principal).
None == "None"

\* Option<T> for record payloads: the empty set, or the singleton of the value.
Nothing == {}
Some(x) == {x}
The(s) == CHOOSE x \in s : TRUE

VARIABLES
  entry,      \* which entry point runs: "main" (fn main), "tests" (mod tests), "handler"
  mainpc,     \* position of fn main
  dbUp,       \* outcome of sea_orm::Database::connect: "unknown", "ok", "err"
  context,    \* Option of the Arc<Context> built by Context::init
  initCount,  \* how many Context values have been constructed
  req,        \* per slot: Option of the request
  rpc,        \* per slot: position of the task answering the request
  resp,       \* per slot: Option of the HTTP response
  sub,        \* per slot: graphql_handler's argument `sub` (None: Subject(None))
  user,       \* per slot: graphql_handler's local `user`
  scope,      \* per slot: Option of the data attached to the async_graphql request
  exec,       \* per slot: the state of schema.execute
  seen,       \* per slot: the Subjects the resolvers of the request read from its data
  hist        \* per slot: the sequence of per-request state-machine events

vars == <<entry, mainpc, dbUp, context, initCount, req, rpc, resp,
          sub, user, scope, exec, seen, hist>>

mainVars == <<mainpc, dbUp, context, initCount>>
handlerVars == <<sub, user, scope, exec, seen, hist>>

(***************************************************************************)
(* Process startup: Context::init and main.                                *)
(***************************************************************************)

\* The Context value init() builds: one Oso instance and one Arc'd connection.
\* Instances are told apart by the number of the construction that made them.
NewContext(n) == [oso |-> [instance |-> n, copy |-> FALSE], db |-> [instance |-> n]]

\* A variant of Context_init that swallows the connection error.
Context_init_swallow(connected, n) == [ok |-> TRUE, value |-> Some(NewContext(n))]

\* Context::init(): Ok(Self{..}) when the connection is made, Err otherwise
\* (the `?` on Database::connect).
Context_init(connected, n) ==
  IF connected
    THEN [ok |-> TRUE, value |-> Some(NewContext(n))]
    ELSE [ok |-> FALSE, value |-> Nothing]

\* main, up to and including `Arc::new(Context::init().await?)`.
MainInit ==
  /\ entry = "main"
  /\ mainpc = "start"
  /\ \E connected \in BOOLEAN :
       LET r == Context_init(connected, initCount + 1) IN
         /\ dbUp' = IF connected THEN "ok" ELSE "err"
         /\ IF r.ok
              THEN /\ context' = r.value
                   /\ initCount' = initCount + 1
                   /\ mainpc' = "inited"
              ELSE /\ context' = Nothing
                   /\ initCount' = initCount
                   /\ mainpc' = "exit_err"
  /\ UNCHANGED <<entry, req, rpc, resp>>
  /\ UNCHANGED handlerVars

\* main's `Ok(())`: run() is never called, no server is bound, the process ends.
MainReturn ==
  /\ entry = "main"
  /\ mainpc = "inited"
  /\ mainpc' = "exit_ok"
  /\ UNCHANGED <<entry, dbUp, context, initCount, req, rpc, resp>>
  /\ UNCHANGED handlerVars

(***************************************************************************)
(* The router.                                                             *)
(***************************************************************************)

Methods == {"GET", "POST", "DELETE"}
Paths == {"/", "/graphql", "/health", "/json", "/does-not-exist"}
\* The identity metadata of a request: absent, or a bearer token.
AuthHeaders == {None, "Bearer alice"}
HttpBodies == {"", "[1,2,3,4]"}

HttpRequests == [method : Methods, path : Paths, auth : AuthHeaders, body : HttpBodies]

\* The Extension layers router() adds to the routes: none.
RouterExtensions == {}

\* health_handler: the JSON object serialised with to_string().
health_handler == [status |-> 200, body |-> "{\"code\":\"200\",\"success\":true}"]

\* graphiql: the explorer page.
graphiql == [status |-> 200, body |-> "<html>GraphiQL /graphql</html>"]

\* A variant of the route table without a not-found fallback: unknown paths
\* are answered by the root route, or handed to the GraphQL handler.
RouteOf_no_fallback(method, path) ==
  IF path = "/graphql"
    THEN IF method = "GET" THEN "graphiql"
         ELSE IF method = "POST" THEN "graphql_handler"
         ELSE "method_not_allowed"
    ELSE IF method = "GET" THEN "root" ELSE "graphql_handler"

\* The route table of router(): which handler answers (method, path).
RouteOf(method, path) ==
  IF path = "/"
    THEN IF method = "GET" THEN "root" ELSE "method_not_allowed"
  ELSE IF path = "/graphql"
    THEN IF method = "GET" THEN "graphiql"
         ELSE IF method = "POST" THEN "graphql_handler"
         ELSE "method_not_allowed"
  ELSE "not_found"

\* The rejection of axum's Extension extractor when the extension is absent.
MissingExtension == [status |-> 500, body |-> "Missing request extension"]

\* The extractors `Extension(schema)` and `Extension(ctx)` of graphql_handler,
\* run first, in argument order, against the extensions the request carries.
ExtensionsPresent(exts) == "schema" \in exts /\ "ctx" \in exts

\* What a response records besides status and body: the handler that answered,
\* the Arc<Context> it was given (Nothing when none reached it), and for an
\* executed GraphQL request the data and errors of the envelope.
Answer(h, r) == [handler |-> h, ctx |-> Nothing, executed |-> FALSE,
                 data |-> {}, errors |-> {}] @@ r

\* A request arrives at a router built by router().
Arrive(i) ==
  /\ entry = "tests"
  /\ rpc[i] = "idle"
  /\ \E r \in HttpRequests :
       req' = [req EXCEPT ![i] = Some(r)]
  /\ rpc' = [rpc EXCEPT ![i] = "routing"]
  /\ UNCHANGED <<entry, resp>>
  /\ UNCHANGED mainVars
  /\ UNCHANGED handlerVars

\* The router answers the request of slot i.  A POST /graphql is handed to
\* graphql_handler, whose Extension extractors reject it: router() layers no
\* Extension on the routes.
Serve(i) ==
  /\ entry = "tests"
  /\ rpc[i] = "routing"
  /\ LET r == The(req[i])
         h == RouteOf(r.method, r.path) IN
       /\ h = "graphql_handler" => ~ExtensionsPresent(RouterExtensions)
       /\ resp' = [resp EXCEPT ![i] = Some(Answer(h,
            CASE h = "root" -> [status |-> 200, body |-> "Hello, World!"]
              [] h = "graphiql" -> graphiql
              [] h = "graphql_handler" -> MissingExtension
              [] h = "method_not_allowed" -> [status |-> 405, body |-> ""]
              [] OTHER -> [status |-> 404, body |-> ""]))]
  /\ rpc' = [rpc EXCEPT ![i] = "done"]
  /\ UNCHANGED <<entry, req>>
  /\ UNCHANGED mainVars
  /\ UNCHANGED handlerVars

\* schema.execute before it starts: nothing pending, nothing resolved.
NoExec == [pending |-> {}, data |-> {}, errors |-> {}, gate |-> Nothing]

Init ==
  /\ entry \in {"main", "tests"}
  /\ mainpc = "start"
  /\ dbUp = "unknown"
  /\ context = Nothing
  /\ initCount = 0
  /\ req = [i \in Slots |-> Nothing]
  /\ rpc = [i \in Slots |-> "idle"]
  /\ resp = [i \in Slots |-> Nothing]
  /\ sub = [i \in Slots |-> None]
  /\ user = [i \in Slots |-> None]
  /\ scope = [i \in Slots |-> Nothing]
  /\ exec = [i \in Slots |-> NoExec]
  /\ seen = [i \in Slots |-> {}]
  /\ hist = [i \in Slots |-> <<>>]

Next ==
  \/ MainInit
  \/ MainReturn
  \/ \E i \in Slots : Arrive(i)
  \/ \E i \in Slots : Serve(i)

Spec == Init /\ [][Next]_vars

(***************************************************************************)
(* graphql_handler, applied to its arguments.                              *)
(*                                                                         *)
(* The Subject extractor, the resolvers of UsersQuery and the              *)
(* authorization gate they call are not in the source files; they follow   *)
(* the specification document (sections 4.1, 4.4 and 4.5).                 *)
(***************************************************************************)

\* Fields of the composed schema.  __typename is answered by async_graphql for
\* every object; "users" stands for a guarded field of UsersQuery.
PublicFields == {"__typename"}
ProtectedFields == {"users"}

\* The bodies POSTed to the handler: bytes that are no GraphQL envelope, an
\* envelope whose document does not parse, and envelopes with a valid query.
GqlBodies ==
  {[kind |-> "bad_envelope", fields |-> {}], [kind |-> "bad_document", fields |-> {}]}
  \cup {[kind |-> "query", fields |-> fs] :
          fs \in (SUBSET (PublicFields \cup ProtectedFields)) \ {{}}}

HandlerRequests == [method : {"POST"}, path : {"/graphql"}, auth : AuthHeaders, body : GqlBodies]

\* The outcomes of one query of the authorization engine.
Decisions == {"Allow", "Deny", "Error"}

\* One event of the per-request state machine.
Ev(e, f) == [ev |-> e, field |-> f, subject |-> None, decision |-> None]

\* Identity Extractor: the Subject of a request's identity metadata; absent
\* metadata is the anonymous Subject.
ExtractSubject(auth) ==
  CASE auth = None -> None
    [] auth = "Bearer alice" -> "alice"
    [] OTHER -> None

\* create_schema: the schema, with a clone of the context's Oso in its data.
create_schema(ctx) == [data |-> [oso |-> [instance |-> ctx.oso.instance, copy |-> TRUE]]]

\* A variant of LookupUser that resolves the username to a record.
LookupUser_resolve(s) == IF s # None THEN s ELSE None

\* graphql_handler's `let user = if let Subject(Some(ref username)) = sub {None} else {None}`.
LookupUser(s) == IF s # None THEN None ELSE None

\* A variant of AttachData that puts the looked-up user in the Principal slot.
AttachData_user(s) == [subject |-> s, principal |-> LookupUser_resolve(s)]

\* A variant of AttachData that attaches the anonymous Subject whatever `sub` is.
AttachData_anonymous(s) == [subject |-> None, principal |-> None]

\* The data `.data(sub).data(None)` adds to the request.
AttachData(s) == [subject |-> s, principal |-> None]

\* A variant of BindScope that keeps one data bag for all requests in flight.
BindScope_shared(sc, i, d) ==
  [j \in Slots |-> IF j = i \/ sc[j] # Nothing THEN Some(d) ELSE Nothing]

\* `req.into_inner().data(..)`: the data is stored in the request it is built on.
BindScope(sc, i, d) == [sc EXCEPT ![i] = Some(d)]

\* `schema.execute(request).await`: the request, and its data, are consumed.
DropScope(sc, i) == [sc EXCEPT ![i] = Nothing]

\* The handler is invoked for a POST /graphql whose extensions are in place.
Invoke(i) ==
  /\ entry = "handler"
  /\ rpc[i] = "idle"
  /\ \E r \in HandlerRequests :
       req' = [req EXCEPT ![i] = Some(r)]
  /\ rpc' = [rpc EXCEPT ![i] = "invoked"]
  /\ hist' = [hist EXCEPT ![i] = <<Ev("Anonymous", None)>>]
  /\ UNCHANGED <<entry, resp, sub, user, scope, exec, seen>>
  /\ UNCHANGED mainVars

\* The extractor of the argument `sub: Subject`.
SubjectExtracted(i) ==
  /\ entry = "handler"
  /\ rpc[i] = "invoked"
  /\ sub' = [sub EXCEPT ![i] = ExtractSubject(The(req[i]).auth)]
  /\ rpc' = [rpc EXCEPT ![i] = "subject"]
  /\ hist' = [hist EXCEPT ![i] = Append(@, Ev("SubjectResolved", None))]
  /\ UNCHANGED <<entry, req, resp, user, scope, exec, seen>>
  /\ UNCHANGED mainVars

\* A variant of RequestRejected that goes on to the handler body after the
\* rejection.
RequestRejected_continue(i) ==
  /\ entry = "handler"
  /\ rpc[i] = "subject"
  /\ The(req[i]).body.kind = "bad_envelope"
  /\ resp' = [resp EXCEPT ![i] = Some(Answer("graphql_handler",
                [status |-> 400, body |-> "Bad Request"]))]
  /\ rpc' = [rpc EXCEPT ![i] = "parsed"]
  /\ hist' = [hist EXCEPT ![i] = Append(@, Ev("TransportError", None))]
  /\ UNCHANGED <<entry, req, sub, user, scope, exec, seen>>
  /\ UNCHANGED mainVars

\* The extractor of the argument `req: GraphQLRequest` rejects a body that is
\* no GraphQL envelope; the handler body does not run.
RequestRejected(i) ==
  /\ entry = "handler"
  /\ rpc[i] = "subject"
  /\ The(req[i]).body.kind = "bad_envelope"
  /\ resp' = [resp EXCEPT ![i] = Some(Answer("graphql_handler",
                [status |-> 400, body |-> "Bad Request"]))]
  /\ rpc' = [rpc EXCEPT ![i] = "done"]
  /\ hist' = [hist EXCEPT ![i] = Append(@, Ev("TransportError", None))]
  /\ UNCHANGED <<entry, req, sub, user, scope, exec, seen>>
  /\ UNCHANGED mainVars

\* The extractor of the argument `req: GraphQLRequest` accepts the envelope.
RequestExtracted(i) ==
  /\ entry = "handler"
  /\ rpc[i] = "subject"
  /\ The(req[i]).body.kind # "bad_envelope"
  /\ rpc' = [rpc EXCEPT ![i] = "parsed"]
  /\ UNCHANGED <<entry, req, resp, sub, user, scope, exec, seen, hist>>
  /\ UNCHANGED mainVars

\* The body of graphql_handler up to the call of schema.execute.
HandlerBody(i) ==
  /\ entry = "handler"
  /\ rpc[i] = "parsed"
  /\ user' = [user EXCEPT ![i] = LookupUser(sub[i])]
  /\ scope' = BindScope(scope, i, AttachData(sub[i]))
  /\ rpc' = [rpc EXCEPT ![i] = "execute"]
  /\ UNCHANGED <<entry, req, resp, sub, exec, seen, hist>>
  /\ UNCHANGED mainVars

\* schema.execute parses the document: a document that does not parse becomes
\* an error of the response, a query yields the fields to resolve.
ParseDocument(i) ==
  /\ entry = "handler"
  /\ rpc[i] = "execute"
  /\ LET b == The(req[i]).body IN
       exec' = [exec EXCEPT ![i] =
         IF b.kind = "bad_document"
           THEN [NoExec EXCEPT !.errors = {[message |-> "Syntax Error", path |-> None]}]
           ELSE [NoExec EXCEPT !.pending = b.fields]]
  /\ rpc' = [rpc EXCEPT ![i] = "resolving"]
  /\ UNCHANGED <<entry, req, resp, sub, user, scope, seen, hist>>
  /\ UNCHANGED mainVars

\* A field that needs no authorization is resolved.
ResolvePublic(i, f) ==
  /\ entry = "handler"
  /\ rpc[i] = "resolving"
  /\ exec[i].gate = Nothing
  /\ f \in exec[i].pending \cap PublicFields
  /\ exec' = [exec EXCEPT ![i].pending = @ \ {f},
                          ![i].data = @ \cup {[field |-> f, value |-> "Query"]}]
  /\ UNCHANGED <<entry, req, rpc, resp, sub, user, scope, seen, hist>>
  /\ UNCHANGED mainVars

\* Authorization Gate: the resolver of a guarded field reads the Subject of
\* its request's data and queries the engine held by the schema.
GateCheck(i, f) ==
  /\ entry = "handler"
  /\ rpc[i] = "resolving"
  /\ exec[i].gate = Nothing
  /\ f \in exec[i].pending \cap ProtectedFields
  /\ scope[i] # Nothing
  /\ \E d \in Decisions :
       LET s == The(scope[i]).subject IN
         /\ exec' = [exec EXCEPT ![i].gate =
                       Some([field |-> f, subject |-> s, decision |-> d,
                             engine |-> create_schema(The(context)).data.oso])]
         /\ seen' = [seen EXCEPT ![i] = @ \cup {s}]
         /\ hist' = [hist EXCEPT ![i] =
              Append(@, [ev |-> "GateChecked", field |-> f, subject |-> s, decision |-> d])]
  /\ UNCHANGED <<entry, req, rpc, resp, sub, user, scope>>
  /\ UNCHANGED mainVars

\* A variant of GateOutcome that treats an engine failure as permission.
GateOutcome_fail_open(d) == IF d = "Deny" THEN "Denied" ELSE "Allowed"

\* Fail-closed: only an explicit Allow permits; Deny and engine failure forbid.
GateOutcome(d) == IF d = "Allow" THEN "Allowed" ELSE "Denied"

\* The guarded resolver acts on the gate's answer: the data on Allow, else a
\* null field and a Forbidden error with the field's path.
ResolveProtected(i) ==
  /\ entry = "handler"
  /\ rpc[i] = "resolving"
  /\ exec[i].gate # Nothing
  /\ LET g == The(exec[i].gate)
         o == GateOutcome(g.decision) IN
       /\ exec' = [exec EXCEPT
            ![i].gate = Nothing,
            ![i].pending = @ \ {g.field},
            ![i].data = @ \cup {[field |-> g.field,
                                 value |-> IF o = "Allowed" THEN "protected data" ELSE "null"]},
            ![i].errors = IF o = "Allowed" THEN @
                          ELSE @ \cup {[message |-> "Forbidden", path |-> g.field]}]
       /\ hist' = [hist EXCEPT ![i] = Append(@, Ev(o, g.field))]
  /\ UNCHANGED <<entry, req, rpc, resp, sub, user, scope, seen>>
  /\ UNCHANGED mainVars

\* `schema.execute(request).await.into()`: the response envelope, status 200.
Respond(i) ==
  /\ entry = "handler"
  /\ rpc[i] = "resolving"
  /\ exec[i].pending = {}
  /\ exec[i].gate = Nothing
  /\ resp' = [resp EXCEPT ![i] = Some(
       [handler |-> "graphql_handler", ctx |-> context, executed |-> TRUE,
        status |-> 200, body |-> "", data |-> exec[i].data, errors |-> exec[i].errors])]
  /\ scope' = DropScope(scope, i)
  /\ rpc' = [rpc EXCEPT ![i] = "done"]
  /\ hist' = [hist EXCEPT ![i] = Append(@, Ev("ResponseAssembled", None))]
  /\ UNCHANGED <<entry, req, sub, user, exec, seen>>
  /\ UNCHANGED mainVars

\* The handler's arguments `schema` and `ctx` exist: a Context has been built.
InitHandler ==
  /\ entry = "handler"
  /\ mainpc = "inited"
  /\ dbUp = "ok"
  /\ context = Some(NewContext(1))
  /\ initCount = 1
  /\ req = [i \in Slots |-> Nothing]
  /\ rpc = [i \in Slots |-> "idle"]
  /\ resp = [i \in Slots |-> Nothing]
  /\ sub = [i \in Slots |-> None]
  /\ user = [i \in Slots |-> None]
  /\ scope = [i \in Slots |-> Nothing]
  /\ exec = [i \in Slots |-> NoExec]
  /\ seen = [i \in Slots |-> {}]
  /\ hist = [i \in Slots |-> <<>>]

NextHandler ==
  \/ \E i \in Slots : Invoke(i)
  \/ \E i \in Slots : SubjectExtracted(i)
  \/ \E i \in Slots : RequestRejected(i)
  \/ \E i \in Slots : RequestExtracted(i)
  \/ \E i \in Slots : HandlerBody(i)
  \/ \E i \in Slots : ParseDocument(i)
  \/ \E i \in Slots, f \in PublicFields : ResolvePublic(i, f)
  \/ \E i \in Slots, f \in ProtectedFields : GateCheck(i, f)
  \/ \E i \in Slots : ResolveProtected(i)
  \/ \E i \in Slots : Respond(i)

SpecHandler == InitHandler /\ [][NextHandler]_vars

(***************************************************************************)
(* Properties of the program as wired (Spec).                              *)
(***************************************************************************)

\* The request of slot i has been answered.
Done(i) == rpc[i] = "done" /\ req[i] # Nothing /\ resp[i] # Nothing

\* The paths router() registers with .route(..).
RegisteredPaths == {"/", "/graphql"}

\* C2: every POST /graphql without identity metadata is executed against the
\* schema and answered with status 200.
C2_AnonymousPostExecuted ==
  \A i \in Slots :
    (Done(i) /\ The(req[i]).method = "POST" /\ The(req[i]).path = "/graphql"
       /\ The(req[i]).auth = None)
      => (The(resp[i]).status = 200 /\ The(resp[i]).executed)

\* C4: at most one Context is ever constructed, and every answered
\* POST /graphql was handled with the Context that init() created.
C4_RequestsObserveContext ==
  /\ initCount <= 1
  /\ \A i \in Slots :
       (Done(i) /\ The(req[i]).method = "POST" /\ The(req[i]).path = "/graphql")
         => (The(resp[i]).ctx # Nothing /\ The(resp[i]).ctx = context)

\* C6: GET /health is answered with status 200 and the fixed JSON body.
C6_HealthAnswered ==
  \A i \in Slots :
    (Done(i) /\ The(req[i]).method = "GET" /\ The(req[i]).path = "/health")
      => (The(resp[i]).status = health_handler.status
          /\ The(resp[i]).body = health_handler.body)

C8_JsonEchoed ==
  \A i \in Slots :
    (Done(i) /\ The(req[i]).method = "POST" /\ The(req[i]).path = "/json"
       /\ The(req[i]).body = "[1,2,3,4]")
      => (The(resp[i]).status = 200
          /\ The(resp[i]).body = "{\"data\":" \o The(req[i]).body \o "}")

\* C9: in the process started by main, a failed connection leaves no Context
\* and ends main with the error; a Context exists only after a successful
\* connection; and the process answers no request, before or after init().
C9_StartupFailFast ==
  entry = "main" =>
    /\ dbUp = "err" => (context = Nothing /\ initCount = 0 /\ mainpc = "exit_err")
    /\ mainpc = "exit_err" => dbUp = "err"
    /\ context # Nothing => (dbUp = "ok" /\ initCount = 1)
    /\ \A i \in Slots : rpc[i] = "idle" /\ resp[i] = Nothing

\* C9's case: the connection failed and main has ended with the error.
C9_Witness == entry = "main" /\ dbUp = "err" /\ mainpc = "exit_err"

(***************************************************************************)
(* Properties of graphql_handler (SpecHandler).                            *)
(***************************************************************************)

\* The positions of event e in the history of slot i.
At(i, e) == {k \in 1..Len(hist[i]) : hist[i][k].ev = e}

Terminal == {"ResponseAssembled", "TransportError"}

C3_RequestIsolation ==
  \A i \in Slots :
    /\ seen[i] \subseteq {sub[i]}
    /\ scope[i] # Nothing =>
         (/\ rpc[i] \in {"execute", "resolving"}
          /\ The(scope[i]).subject = sub[i]
          /\ sub[i] = ExtractSubject(The(req[i]).auth))
    /\ rpc[i] = "done" => scope[i] = Nothing

\* C3's case: two requests with different Subjects are both being resolved and
\* each has read its Subject; and a finished request is next to a running one.
C3_Witness ==
  \E i, j \in Slots :
    /\ sub[i] # sub[j]
    /\ rpc[i] = "resolving" /\ rpc[j] = "resolving"
    /\ seen[i] # {} /\ seen[j] # {}

====
